---- MODULE Spec2Model ----
(***************************************************************************)
(* A model of notionsync.py: the sync of a Notion database to blogs.json.  *)
(*                                                                         *)
(* Strings that the program builds or inspects are sequences of tokens     *)
(* (a token is a TLA+ string: one character of text, or one piece of       *)
(* markup such as "<p>"), so that concatenation is \o and ''.join is       *)
(* Join.  A Python dict is a record (fixed keys) or a function whose       *)
(* DOMAIN is the set of keys present (a property bag).  An optional value  *)
(* (None or a value) is a sequence of length 0 or 1.  A Python exception   *)
(* is the result Raise of the operator that models the raising function.   *)
(***************************************************************************)
EXTENDS Integers, Sequences, FiniteSets, TLC

VARIABLES
    profile,        \* which input universe this run draws from (fixed by Init)
    NOTION_TOKEN,   \* module constant read from the environment (line 11)
    DATABASE_ID,    \* module constant read from the environment (line 12)
    pc,             \* position of the run in __main__ / sync_notion_to_blogs
    pages,          \* sync_notion_to_blogs: the listing returned by the query
    idx,            \* sync_notion_to_blogs: enumerate index of the main loop
    meta,           \* sync_notion_to_blogs: title, date, category, tags of the entry
    fetch,          \* the running fetch_blocks activation (its locals)
    stack,          \* the blocks_to_html activations, innermost last
    blogs,          \* sync_notion_to_blogs: the list of blog entries
    output,         \* the content of OUTPUT_FILE written by this run
    nblocks,        \* number of blocks the source has handed out in this run
    requests,       \* history: every request made to the content source
    errors,         \* history: every exception caught by the run
    walks           \* history: every finished blocks_to_html activation

vars == <<profile, NOTION_TOKEN, DATABASE_ID, pc, pages, idx, meta, fetch,
          stack, blogs, output, nblocks, requests, errors, walks>>

(***************************************************************************)
(* Bounds of the model.                                                    *)
(***************************************************************************)
\* blocks the source hands out in one run of the "walk" profile
WalkMaxBlocks == 3
\* responses with more results to come, in one run of the "walk" profile
WalkMaxMore == 1
\* blocks the source hands out in one run of the other profiles
SyncMaxBlocks == 1
\* responses with more results to come, in one run of the other profiles
SyncMaxMore == 0
\* entries of the database listing in the "sync" profile
SyncMaxEntries == 3
\* nesting depth of the block tree (1: the page's blocks have no children)
MaxDepth == 3
\* blocks in one page of a children listing
PageSize == 2
\* blocks the source hands out in one run of the "excerpt" profile
SmallMaxBlocks == 2

(***************************************************************************)
(* Generic helpers for the Python idioms used by the program.              *)
(***************************************************************************)
None == <<>>

Some(v) == <<v>>

\* the result of a function that raised
Raise == [ok |-> FALSE, val |-> <<"Exception">>]

Return(v) == [ok |-> TRUE, val |-> v]

RECURSIVE Join(_)
\* ''.join(parts): the concatenation of a sequence of token sequences
Join(parts) ==
    IF parts = <<>> THEN <<>> ELSE Head(parts) \o Join(Tail(parts))

\* d.get(key): the value under key, or None
Get(d, key) == IF key \in DOMAIN d THEN Some(d[key]) ELSE None

\* d.get(a) or d.get(b): a property dict is never falsy, so the first one present
GetOr(d, a, b) == IF Get(d, a) # None THEN Get(d, a) ELSE Get(d, b)

\* str.lower() on one character, for the letters the model uses
LowerChar(c) ==
    CASE c = "A" -> "a" [] c = "B" -> "b" [] c = "C" -> "c" [] c = "D" -> "d"
      [] c = "E" -> "e" [] c = "H" -> "h" [] c = "I" -> "i" [] c = "L" -> "l"
      [] c = "P" -> "p" [] c = "S" -> "s" [] c = "U" -> "u" [] c = "V" -> "v"
      [] OTHER -> c

\* str.lower()
Lower(s) == [i \in 1..Len(s) |-> LowerChar(s[i])]

(***************************************************************************)
(* Rich text and blocks as the content source delivers them.               *)
(***************************************************************************)
\* a rich-text object: plain_text, annotations and href (None or a URL)
Span(text) ==
    [plain_text |-> text, bold |-> FALSE, italic |-> FALSE, code |-> FALSE,
     strikethrough |-> FALSE, href |-> None]

\* a rich-text object with its annotations and href given
Annotated(text, bold, italic, code, strikethrough, href) ==
    [plain_text |-> text, bold |-> bold, italic |-> italic, code |-> code,
     strikethrough |-> strikethrough, href |-> href]

\* the text of the n-th block the source hands out: one character of its own
BlockChars == <<"a", "b", "c", "d", "e", "f", "g", "h", "i", "j", "k", "l">>

\* a block object: its id, type and has_children flag, and the content of its type
Block(n, type, has_children, rich_text) ==
    [id |-> BlockChars[n], type |-> type, has_children |-> has_children,
     rich_text |-> rich_text, language |-> None, icon |-> None,
     file_url |-> None, external_url |-> None, caption |-> <<>>]

(***************************************************************************)
(* Notion to HTML conversion functions (lines 21-119).                     *)
(***************************************************************************)
\* SpanHtml with the italic wrap applied first and the bold wrap around it
SpanHtmlItalicFirst(text_obj) ==
    LET c0 == text_obj.plain_text
        c1 == IF text_obj.italic THEN <<"<em>">> \o c0 \o <<"</em>">> ELSE c0
        c2 == IF text_obj.bold THEN <<"<strong>">> \o c1 \o <<"</strong>">> ELSE c1
        c3 == IF text_obj.code THEN <<"<code>">> \o c2 \o <<"</code>">> ELSE c2
        c4 == IF text_obj.strikethrough THEN <<"<s>">> \o c3 \o <<"</s>">> ELSE c3
    IN  IF text_obj.href # None
        THEN <<"<a href=\"">> \o text_obj.href[1] \o <<"\">">> \o c4 \o <<"</a>">>
        ELSE c4

\* lines 28-45: the HTML of one rich-text object
SpanHtml(text_obj) ==
    LET c0 == text_obj.plain_text
        c1 == IF text_obj.bold THEN <<"<strong>">> \o c0 \o <<"</strong>">> ELSE c0
        c2 == IF text_obj.italic THEN <<"<em>">> \o c1 \o <<"</em>">> ELSE c1
        c3 == IF text_obj.code THEN <<"<code>">> \o c2 \o <<"</code>">> ELSE c2
        c4 == IF text_obj.strikethrough THEN <<"<s>">> \o c3 \o <<"</s>">> ELSE c3
    IN  IF text_obj.href # None
        THEN <<"<a href=\"">> \o text_obj.href[1] \o <<"\">">> \o c4 \o <<"</a>">>
        ELSE c4

RECURSIVE notion_rich_text_to_html(_)
\* lines 21-47
notion_rich_text_to_html(rich_text_array) ==
    IF rich_text_array = <<>>
    THEN <<>>
    ELSE SpanHtml(Head(rich_text_array))
             \o notion_rich_text_to_html(Tail(rich_text_array))

\* lines 50-119: the HTML fragment of one block, by its type
notion_block_to_html(block) ==
    LET block_type == block.type
        text == notion_rich_text_to_html(block.rich_text)
    IN  CASE block_type = "paragraph" ->
                 IF text # <<>> THEN <<"<p>">> \o text \o <<"</p>">> ELSE <<>>
          [] block_type = "heading_1" -> <<"<h1>">> \o text \o <<"</h1>">>
          [] block_type = "heading_2" -> <<"<h2>">> \o text \o <<"</h2>">>
          [] block_type = "heading_3" -> <<"<h3>">> \o text \o <<"</h3>">>
          [] block_type = "code" ->
                 LET language == IF block.language # None
                                 THEN block.language[1] ELSE <<"plaintext">>
                 IN  <<"<pre><code class='language-">> \o language \o <<"'>">>
                         \o text \o <<"</code></pre>">>
          [] block_type = "bulleted_list_item" -> <<"<li>">> \o text \o <<"</li>">>
          [] block_type = "numbered_list_item" -> <<"<li>">> \o text \o <<"</li>">>
          [] block_type = "quote" ->
                 <<"<blockquote>">> \o text \o <<"</blockquote>">>
          [] block_type = "divider" -> <<"<hr>">>
          [] block_type = "callout" ->
                 LET emoji == IF block.icon # None /\ block.icon[1].type = "emoji"
                              THEN block.icon[1].emoji ELSE <<"(bulb)">>
                 IN  <<"<div class='callout'>">> \o emoji \o <<" ">> \o text
                         \o <<"</div>">>
          [] block_type = "toggle" ->
                 <<"<details><summary>">> \o text \o <<"</summary></details>">>
          [] block_type = "image" ->
                 LET image_url == IF block.file_url # None
                                  THEN block.file_url ELSE block.external_url
                     caption == notion_rich_text_to_html(block.caption)
                 IN  IF image_url = None THEN <<>>
                     ELSE IF caption # <<>>
                     THEN <<"<figure><img src=\"">> \o image_url[1]
                              \o <<"\" alt=\"">> \o caption
                              \o <<"\"><figcaption>">> \o caption
                              \o <<"</figcaption></figure>">>
                     ELSE <<"<img src=\"">> \o image_url[1]
                              \o <<"\" alt=\"Image\">">>
          [] OTHER -> <<>>

(***************************************************************************)
(* Dates.  An ISO-8601 string is a record of its parts (kind "iso"), and   *)
(* any other string has kind "text".  A formatted date ('%b %d, %Y') is    *)
(* the record of its three directives.                                     *)
(***************************************************************************)
MonthAbbr == <<"Jan", "Feb", "Mar", "Apr", "May", "Jun",
               "Jul", "Aug", "Sep", "Oct", "Nov", "Dec">>

IsoString(year, month, day, time, zone) ==
    [kind |-> "iso", year |-> year, month |-> month, day |-> day,
     time |-> time, zone |-> zone]

\* a date string that is not ISO-8601
NotIsoString == [kind |-> "text", year |-> 0, month |-> 0, day |-> 0,
                 time |-> "", zone |-> ""]

\* date_str.replace('Z', '+00:00') (lines 207, 210)
ReplaceZ(date_str) ==
    IF date_str.zone = "Z" THEN [date_str EXCEPT !.zone = "+00:00"] ELSE date_str

\* datetime.fromisoformat: a datetime, or ValueError.  The zone "Z" is the one
\* the code rewrites first because fromisoformat (before Python 3.11) rejects it.
fromisoformat(date_str) ==
    IF date_str.kind = "iso" /\ date_str.zone # "Z"
       /\ date_str.month \in 1..12 /\ date_str.day \in 1..31
    THEN Return([year |-> date_str.year, month |-> date_str.month,
                 day |-> date_str.day])
    ELSE Raise

\* date_obj.strftime('%b %d, %Y')
strftime(date_obj) ==
    [b |-> MonthAbbr[date_obj.month], d |-> date_obj.day, Y |-> date_obj.year]

\* datetime.strptime(s, '%b %d, %Y')
strptime(s) ==
    [year |-> s.Y,
     month |-> CHOOSE m \in 1..12 : MonthAbbr[m] = s.b,
     day |-> s.d]

\* datetime ordering: a < b
DateLess(a, b) ==
    \/ a.year < b.year
    \/ a.year = b.year /\ a.month < b.month
    \/ a.year = b.year /\ a.month = b.month /\ a.day < b.day

\* datetime.now() of the run
Now == [year |-> 2024, month |-> 3, day |-> 9]

(***************************************************************************)
(* Property objects of a page: the declared type and the value fields.     *)
(***************************************************************************)
Prop(type) ==
    [type |-> type, title |-> <<>>, rich_text |-> <<>>, date |-> None,
     created_time |-> IsoString(2024, 1, 1, "T00:00:00", "Z"),
     select |-> None, multi_select |-> <<>>, checkbox |-> FALSE]

RECURSIVE PlainText(_)
\* ''.join([text.get('plain_text', '') for text in rich_text])
PlainText(rich_text) ==
    IF rich_text = <<>> THEN <<>>
    ELSE Head(rich_text).plain_text \o PlainText(Tail(rich_text))

(***************************************************************************)
(* Property extraction functions (lines 192-267).  Each yields Return(v)   *)
(* or Raise.                                                               *)
(***************************************************************************)
\* lines 192-198
extract_title(properties) ==
    LET title_prop == GetOr(properties, "Title", "Name")
    IN  IF title_prop # None /\ title_prop[1].type = "title"
        THEN Return(PlainText(title_prop[1].title))
        ELSE Return(<<"Untitled">>)

\* lines 201-214
extract_date(properties) ==
    LET date_prop == GetOr(properties, "Date", "Published")
    IN  IF date_prop # None /\ date_prop[1].type = "date"
           /\ date_prop[1].date # None
        THEN LET date_obj == fromisoformat(ReplaceZ(date_prop[1].date[1].start))
             IN  IF date_obj.ok THEN Return(strftime(date_obj.val)) ELSE Raise
        ELSE IF date_prop # None /\ date_prop[1].type = "created_time"
        THEN LET date_obj == fromisoformat(ReplaceZ(date_prop[1].created_time))
             IN  IF date_obj.ok THEN Return(strftime(date_obj.val)) ELSE Raise
        ELSE Return(strftime(Now))

\* lines 217-225
extract_category(properties) ==
    LET category_prop == GetOr(properties, "Category", "Type")
    IN  IF category_prop # None /\ category_prop[1].type = "select"
           /\ category_prop[1].select # None
        THEN Return(category_prop[1].select[1].name)
        ELSE IF category_prop # None /\ category_prop[1].type = "multi_select"
                /\ category_prop[1].multi_select # <<>>
        THEN Return(category_prop[1].multi_select[1].name)
        ELSE Return(<<"General">>)

\* lines 228-233
extract_tags(properties) ==
    LET tags_prop == GetOr(properties, "Tags", "Labels")
    IN  IF tags_prop # None /\ tags_prop[1].type = "multi_select"
        THEN Return([i \in 1..Len(tags_prop[1].multi_select) |->
                        tags_prop[1].multi_select[i].name])
        ELSE Return(<<>>)

\* markup tokens that are a whole tag: what re.sub('<[^<]+?>', '', s) removes
IsTag(tok) ==
    tok \in {"<strong>", "</strong>", "<em>", "</em>", "<code>", "</code>",
             "<s>", "</s>", "</a>", "<p>", "</p>", "<h1>", "</h1>", "<h2>",
             "</h2>", "<h3>", "</h3>", "<li>", "</li>", "<ul>", "</ul>",
             "<ol>", "</ol>", "<hr>", "<blockquote>", "</blockquote>",
             "</div>", "<div class='callout'>", "</code></pre>",
             "<details><summary>", "</summary></details>",
             "<img src=\"", "\" alt=\"Image\">", "\"><figcaption>",
             "</figcaption></figure>", "<figure><img src=\""}

\* index of the first occurrence of tok in s at or after position from; 0 if none
IndexFrom(s, tok, from) ==
    LET hits == {i \in from..Len(s) : s[i] = tok}
    IN  IF hits = {} THEN 0 ELSE CHOOSE i \in hits : \A j \in hits : i <= j

\* a token that re.sub('<[^<]+?>', '', s) leaves in place
NotStripped(tok) ==
    ~IsTag(tok) \/ tok \in {"<img src=\"", "<figure><img src=\""}

RECURSIVE StripTags(_)
\* re.sub('<[^<]+?>', '', s): whole tags go; an anchor's opening tag goes with
\* its target, up to the token that closes it
StripTags(s) ==
    LET anchor == IndexFrom(s, "<a href=\"", 1)
        close == IF anchor = 0 THEN 0 ELSE IndexFrom(s, "\">", anchor + 1)
    IN  IF close = 0 THEN SelectSeq(s, NotStripped)
        ELSE SelectSeq(SubSeq(s, 1, anchor - 1), NotStripped)
                 \o StripTags(SubSeq(s, close + 1, Len(s)))

\* the line break character
Newline == "\n"

\* the pattern '<p>(.*?)</p>' matches at position i: an opening tag, and up to
\* the next closing tag no line break ('.' does not match a line break)
ParagraphAt(content_html, i) ==
    LET close == IndexFrom(content_html, "</p>", i + 1)
    IN  /\ content_html[i] = "<p>"
        /\ close # 0
        /\ \A j \in (i + 1)..(close - 1) : content_html[j] # Newline

\* re.findall(r'<p>(.*?)</p>', content_html)[0], as None or the text
FirstParagraph(content_html) ==
    LET matches == {i \in 1..Len(content_html) : ParagraphAt(content_html, i)}
        open == CHOOSE i \in matches : \A j \in matches : i <= j
    IN  IF matches = {} THEN None
        ELSE Some(SubSeq(content_html, open + 1,
                         IndexFrom(content_html, "</p>", open + 1) - 1))

\* the excerpt is cut to this many characters (line 254)
ExcerptLength == 200

\* lines 236-256
extract_excerpt(properties, content_html) ==
    LET excerpt_prop == GetOr(properties, "Excerpt", "Summary")
        excerpt == IF excerpt_prop # None /\ excerpt_prop[1].type = "rich_text"
                   THEN PlainText(excerpt_prop[1].rich_text) ELSE <<>>
        paragraphs == FirstParagraph(content_html)
        text == StripTags(paragraphs[1])
    IN  IF excerpt # <<>> THEN Return(excerpt)
        ELSE IF content_html # <<>> /\ paragraphs # None
        THEN Return(IF Len(text) > ExcerptLength
                    THEN SubSeq(text, 1, ExcerptLength) \o <<"...">>
                    ELSE text)
        ELSE Return(<<"No excerpt available.">>)

\* line 266: the names that count as published
PublishedNames ==
    {<<"p", "u", "b", "l", "i", "s", "h", "e", "d">>, <<"l", "i", "v", "e">>,
     <<"p", "u", "b", "l", "i", "c">>}

\* extract_published_status with the name compared as it is written
extract_published_status_cased(properties) ==
    LET status_prop == GetOr(properties, "Status", "Published")
    IN  IF status_prop # None /\ status_prop[1].type = "checkbox"
        THEN Return(status_prop[1].checkbox)
        ELSE IF status_prop # None /\ status_prop[1].type = "select"
                /\ status_prop[1].select # None
        THEN Return(status_prop[1].select[1].name \in PublishedNames)
        ELSE Return(TRUE)

\* lines 259-267
extract_published_status(properties) ==
    LET status_prop == GetOr(properties, "Status", "Published")
    IN  IF status_prop # None /\ status_prop[1].type = "checkbox"
        THEN Return(status_prop[1].checkbox)
        ELSE IF status_prop # None /\ status_prop[1].type = "select"
                /\ status_prop[1].select # None
        THEN Return(Lower(status_prop[1].select[1].name) \in PublishedNames)
        ELSE Return(TRUE)

(***************************************************************************)
(* The input universes.  A run draws the database listing and every page   *)
(* of every children listing from the sets of its profile:                 *)
(*   "walk"  one entry, block trees of every shape (the walker's claims);  *)
(*   "sync"  several entries with dates, drafts and failures (the          *)
(*           orchestrator's claims);                                       *)
(*   "props" one entry, property bags of every kind (the extractors);      *)
(*   "rich"  one entry, paragraphs of annotated and linked rich text;      *)
(*   "excerpt" one entry, with or without an excerpt property, paragraphs  *)
(*           of short, long, formatted and multi-line text;                *)
(*   "gaps"  one entry, list items and blocks that render to nothing;      *)
(*   "pages" one entry, listings of several pages of any size and          *)
(*           responses that carry no has_more key;                         *)
(*   "tree"  two entries, deep block trees of two block types.             *)
(***************************************************************************)
Profiles ==
    {"walk", "sync", "props", "rich", "excerpt", "gaps", "pages", "tree"}

Placeholder == "YOUR_NOTION_INTEGRATION_TOKEN_HERE"

PlaceholderDb == "YOUR_DATABASE_ID_HERE"

PageIds == <<"P1", "P2", "P3", "P4", "P5", "P6">>

Name(chars) == [name |-> chars]

Draft == <<"D", "r", "a", "f", "t">>

SelectProp(chars) == [Prop("select") EXCEPT !.select = Some(Name(chars))]

DateProp(date_str) == [Prop("date") EXCEPT !.date = Some([start |-> date_str])]

CheckboxProp(b) == [Prop("checkbox") EXCEPT !.checkbox = b]

MultiSelectProp(names) ==
    [Prop("multi_select") EXCEPT
        !.multi_select = [i \in 1..Len(names) |-> Name(names[i])]]

TitleProp(runs) ==
    [Prop("title") EXCEPT !.title = [i \in 1..Len(runs) |-> Span(runs[i])]]

RichTextProp(runs) ==
    [Prop("rich_text") EXCEPT
        !.rich_text = [i \in 1..Len(runs) |-> Span(runs[i])]]

\* the empty property bag
NoProps == [k \in {} |-> Prop("none")]

Jan05 == IsoString(2024, 1, 5, "", "")

Apr05 == IsoString(2024, 4, 5, "", "")

LastDec == IsoString(2023, 12, 5, "T10:00:00", "Z")

WalkBags ==
    {NoProps,
     "Status" :> SelectProp(Draft),
     "Date" :> DateProp(NotIsoString)}

SyncBags ==
    {"Date" :> DateProp(Apr05),
     "Date" :> DateProp(LastDec),
     ("Status" :> SelectProp(Draft)) @@ ("Date" :> DateProp(Apr05)),
     "Date" :> DateProp(NotIsoString)}

StatusBags ==
    {"Status" :> CheckboxProp(TRUE),
     "Status" :> CheckboxProp(FALSE),
     "Status" :> SelectProp(Draft),
     "Status" :> SelectProp(<<"P", "u", "b", "l", "i", "s", "h", "e", "d">>),
     "Status" :> SelectProp(<<"L", "I", "V", "E">>),
     "Status" :> SelectProp(<<"p", "u", "b", "l", "i", "c">>),
     "Status" :> SelectProp(<<"p", "u", "b">>),
     "Status" :> Prop("select"),
     "Status" :> Prop("status"),
     "Published" :> CheckboxProp(FALSE),
     "Published" :> CheckboxProp(TRUE),
     "Published" :> SelectProp(Draft),
     ("Status" :> CheckboxProp(TRUE)) @@ ("Published" :> CheckboxProp(FALSE)),
     ("Status" :> SelectProp(Draft)) @@ ("Published" :> CheckboxProp(TRUE))}

DateBags ==
    {"Date" :> DateProp(Jan05),
     "Date" :> DateProp(LastDec),
     "Date" :> DateProp(NotIsoString),
     "Date" :> Prop("date"),
     "Date" :> Prop("created_time"),
     "Date" :> [Prop("created_time") EXCEPT !.created_time = NotIsoString],
     "Date" :> RichTextProp(<<<<"J", "a", "n">>>>),
     "Published" :> DateProp(Apr05)}

TitleBags ==
    {"Title" :> TitleProp(<<<<"H", "i">>, <<"!">>>>),
     "Name" :> TitleProp(<<<<"H", "i">>>>),
     "Title" :> TitleProp(<<>>),
     "Title" :> RichTextProp(<<<<"H", "i">>>>)}

CategoryBags ==
    {"Category" :> SelectProp(<<"T", "e", "c", "h">>),
     "Category" :> Prop("select"),
     "Category" :> MultiSelectProp(<<<<"A">>, <<"B">>>>),
     "Category" :> Prop("multi_select"),
     "Type" :> SelectProp(<<"T", "e", "c", "h">>),
     "Category" :> RichTextProp(<<<<"A">>>>)}

TagsBags ==
    {"Tags" :> MultiSelectProp(<<<<"a">>, <<"b">>>>),
     "Labels" :> MultiSelectProp(<<<<"x">>>>),
     "Tags" :> Prop("multi_select"),
     "Tags" :> SelectProp(<<"a">>)}

ExcerptBags ==
    {"Excerpt" :> RichTextProp(<<<<"S", "u", "m">>>>),
     "Summary" :> RichTextProp(<<<<"S", "u", "m">>>>),
     "Excerpt" :> Prop("rich_text"),
     "Excerpt" :> TitleProp(<<<<"S", "u", "m">>>>)}

\* an explicit excerpt of two spans, and one under both names
TwoNameBags ==
    {"Excerpt" :> RichTextProp(<<<<"S", "u">>, <<"m">>>>),
     ("Excerpt" :> RichTextProp(<<<<"E">>>>))
         @@ ("Summary" :> RichTextProp(<<<<"S", "u", "m">>>>))}

PropsBags ==
    {NoProps} \cup StatusBags \cup DateBags \cup TitleBags \cup CategoryBags
        \cup TagsBags \cup ExcerptBags

Bags(p) ==
    CASE p = "sync" -> SyncBags
      [] p = "props" -> PropsBags
      [] p = "excerpt" -> WalkBags \cup ExcerptBags \cup TwoNameBags
      [] OTHER -> WalkBags

MaxEntries(p) ==
    CASE p = "sync" -> SyncMaxEntries [] p = "tree" -> 2 [] OTHER -> 1

MaxBlocks(p) ==
    CASE p \in {"walk", "gaps", "tree"} -> WalkMaxBlocks
      [] p = "excerpt" -> SmallMaxBlocks
      [] OTHER -> SyncMaxBlocks

MaxMore(p) ==
    IF p \in {"walk", "gaps", "pages", "tree"} THEN WalkMaxMore
    ELSE SyncMaxMore

\* the database listings the query can return: entries with an id and properties
Listings(p) ==
    UNION {[1..n -> Bags(p)] : n \in 0..MaxEntries(p)}

Entry(k, bag) == [id |-> PageIds[k], properties |-> bag]

\* the target of a link
Url == <<"u">>

\* the rich texts of the "rich" profile: one span with every combination of
\* annotations and link, no span, and two spans
RichTexts(c) ==
    {<<Annotated(<<c>>, b, i, k, s, h)>> :
        b \in BOOLEAN, i \in BOOLEAN, k \in BOOLEAN, s \in BOOLEAN,
        h \in {None, Some(Url)}}
      \cup {<<>>,
            <<Annotated(<<c>>, TRUE, FALSE, FALSE, FALSE, None), Span(<<"x">>)>>,
            <<Span(<<c>>),
              Annotated(<<"x">>, FALSE, TRUE, FALSE, FALSE, Some(Url))>>}

\* the rich texts of the "excerpt" profile: one character, as many characters
\* as an excerpt holds and one more, two spans with markup, and two lines
ExcerptTexts(c) ==
    {<<Span(<<c>>)>>,
     <<Span([i \in 1..ExcerptLength |-> c])>>,
     <<Span([i \in 1..(ExcerptLength + 1) |-> c])>>,
     <<Annotated(<<c>>, TRUE, FALSE, FALSE, FALSE, None), Span(<<"x">>)>>,
     <<Span(<<c, Newline, "x">>)>>}

\* a block of the given type whose text is the one character c
Plain(type, c) == [type |-> type, rich_text |-> <<Span(<<c>>)>>]

\* the type and rich text the source can give the block with the character c
BlockShapes(p, c) ==
    CASE p = "walk" ->
             {Plain(t, c) : t \in {"bulleted_list_item", "numbered_list_item",
                                   "paragraph", "unsupported"}}
      [] p = "rich" ->
             {[type |-> "paragraph", rich_text |-> rt] : rt \in RichTexts(c)}
                 \cup {Plain("bulleted_list_item", c)}
      [] p = "excerpt" ->
             {[type |-> "paragraph", rich_text |-> rt] : rt \in ExcerptTexts(c)}
                 \cup {Plain("bulleted_list_item", c)}
      [] p = "gaps" ->
             {Plain("bulleted_list_item", c),
              [type |-> "paragraph", rich_text |-> <<>>],
              [type |-> "image", rich_text |-> <<>>],
              [type |-> "unsupported", rich_text |-> <<>>]}
      [] OTHER -> {Plain(t, c) : t \in {"bulleted_list_item", "paragraph"}}

\* the has_more key of the last page: False, or (profile "pages") no key
LastPageFlags(p) == IF p = "pages" THEN {Some(FALSE), None} ELSE {Some(FALSE)}

\* HasMore with a response without the key read as one with more to come
HasMoreByDefault(response) ==
    IF response.has_more = None THEN TRUE ELSE response.has_more[1]

\* response.get('has_more', False) (line 134)
HasMore(response) ==
    IF response.has_more = None THEN FALSE ELSE response.has_more[1]

RECURSIVE Contents(_, _, _, _)
\* the sequences of k blocks that can follow the n blocks handed out so far,
\* each as its shape and its has_children flag
Contents(p, n, k, children) ==
    IF k = 0 THEN {<<>>}
    ELSE {Append(front, <<shape, has_children>>) :
            front \in Contents(p, n, k - 1, children),
            shape \in BlockShapes(p, BlockChars[n + k]),
            has_children \in children}

\* the pages a children listing can answer with: when n blocks were handed out
\* so far and m responses announced more results, at nesting depth d, as page
\* number pn of the listing.  Only a full page announces more results, but
\* in the "pages" profile, where any page may.
Responses(p, n, m, d, pn) ==
    LET children == IF d < MaxDepth THEN BOOLEAN ELSE {FALSE}
        sizes == {k \in 0..PageSize : n + k <= MaxBlocks(p)}
    IN  {[results |-> [j \in 1..k |->
                          Block(n + j, f[j][1].type, f[j][2],
                                f[j][1].rich_text)],
          has_more |-> more,
          next_cursor |-> IF more = Some(TRUE) THEN Some(pn) ELSE None] :
            <<k, f, more>> \in
                UNION {{k} \X Contents(p, n, k, children)
                           \X (IF m < MaxMore(p)
                                  /\ (k = PageSize \/ p = "pages")
                               THEN {Some(TRUE)} \cup LastPageFlags(p)
                               ELSE LastPageFlags(p)) :
                       k \in sizes}}

(***************************************************************************)
(* The block-tree walker, blocks_to_html (lines 140-185), one activation   *)
(* as a frame: its argument, the loop position i and its locals.  Two       *)
(* fields are history: call, the fetch_blocks call that returned the       *)
(* argument, and kids, the child_html of each block walked into.           *)
(***************************************************************************)
Frame(blocks, call) ==
    [blocks |-> blocks, i |-> 1, html_parts |-> <<>>, list_buffer |-> <<>>,
     current_list_type |-> "None", call |-> call, kids |-> <<>>]

ListTypes == {"bulleted_list_item", "numbered_list_item"}

\* f"<{current_list_type}>{''.join(list_buffer)}</{current_list_type}>"
Container(current_list_type, list_buffer) ==
    <<"<" \o current_list_type \o ">">> \o Join(list_buffer)
        \o <<"</" \o current_list_type \o ">">>

\* ListItemStep with the open list closed at every item, not only when the
\* kind of list changes
ListItemStepEager(frame, block) ==
    LET list_type == IF block.type = "bulleted_list_item" THEN "ul" ELSE "ol"
        closed == IF frame.list_buffer # <<>>
                  THEN [frame EXCEPT
                          !.html_parts = Append(@,
                              Container(frame.current_list_type,
                                        frame.list_buffer)),
                          !.list_buffer = <<>>]
                  ELSE frame
    IN  [closed EXCEPT
            !.current_list_type = list_type,
            !.list_buffer = Append(@, notion_block_to_html(block))]

\* lines 150-161: the loop body for a list item
ListItemStep(frame, block) ==
    LET list_type == IF block.type = "bulleted_list_item" THEN "ul" ELSE "ol"
        closed == IF frame.current_list_type # list_type
                     /\ frame.list_buffer # <<>>
                  THEN [frame EXCEPT
                          !.html_parts = Append(@,
                              Container(frame.current_list_type,
                                        frame.list_buffer)),
                          !.list_buffer = <<>>]
                  ELSE frame
    IN  [closed EXCEPT
            !.current_list_type = list_type,
            !.list_buffer = Append(@, notion_block_to_html(block))]

\* OtherStep with the kind of list kept when the list is closed
OtherStepKeepsKind(frame, block) ==
    LET closed == IF frame.list_buffer # <<>>
                  THEN [frame EXCEPT
                          !.html_parts = Append(@,
                              Container(frame.current_list_type,
                                        frame.list_buffer)),
                          !.list_buffer = <<>>]
                  ELSE frame
        html == notion_block_to_html(block)
    IN  IF html # <<>>
        THEN [closed EXCEPT !.html_parts = Append(@, html)]
        ELSE closed

\* OtherStep with the open list closed only by a block that renders to
\* something
OtherStepLazy(frame, block) ==
    LET closed == IF frame.list_buffer # <<>>
                  THEN [frame EXCEPT
                          !.html_parts = Append(@,
                              Container(frame.current_list_type,
                                        frame.list_buffer)),
                          !.list_buffer = <<>>,
                          !.current_list_type = "None"]
                  ELSE frame
        html == notion_block_to_html(block)
    IN  IF html # <<>>
        THEN [closed EXCEPT !.html_parts = Append(@, html)]
        ELSE frame

\* lines 162-172: the loop body for any other block
OtherStep(frame, block) ==
    LET closed == IF frame.list_buffer # <<>>
                  THEN [frame EXCEPT
                          !.html_parts = Append(@,
                              Container(frame.current_list_type,
                                        frame.list_buffer)),
                          !.list_buffer = <<>>,
                          !.current_list_type = "None"]
                  ELSE frame
        html == notion_block_to_html(block)
    IN  IF html # <<>>
        THEN [closed EXCEPT !.html_parts = Append(@, html)]
        ELSE closed

\* TakeChild with the list state shared between the two walks: the child walk
\* leaves it empty
TakeChildShared(frame, child_html) ==
    [frame EXCEPT
        !.html_parts = IF child_html # <<>> THEN Append(@, child_html) ELSE @,
        !.kids = Append(@, [id |-> frame.blocks[frame.i].id,
                            html |-> child_html]),
        !.list_buffer = <<>>,
        !.current_list_type = "None",
        !.i = @ + 1]

\* lines 177-179: the parent takes the HTML of the children of its block i
TakeChild(frame, child_html) ==
    [frame EXCEPT
        !.html_parts = IF child_html # <<>> THEN Append(@, child_html) ELSE @,
        !.kids = Append(@, [id |-> frame.blocks[frame.i].id,
                            html |-> child_html]),
        !.i = @ + 1]

\* FrameResult without the list that is open when the loop ends
FrameResultUnflushed(frame) == Join(frame.html_parts)

\* lines 181-185: the value an activation returns once its loop has ended
FrameResult(frame) ==
    Join(IF frame.list_buffer # <<>>
         THEN Append(frame.html_parts,
                     Container(frame.current_list_type, frame.list_buffer))
         ELSE frame.html_parts)

(***************************************************************************)
(* fetch_blocks (lines 122-137), one activation: its locals, and as        *)
(* history the number of the call and the pages requested so far.          *)
(***************************************************************************)
NoFetch ==
    [block_id |-> "", blocks |-> <<>>, has_more |-> FALSE,
     start_cursor |-> None, call |-> 0, pn |-> 0]

\* lines 124-126
FetchStart(page_id, call) ==
    [block_id |-> page_id, blocks |-> <<>>, has_more |-> TRUE,
     start_cursor |-> None, call |-> call, pn |-> 0]

\* FetchStep with the page assigned to blocks, not appended to it
FetchStepOverwrite(f, response) ==
    [f EXCEPT !.blocks = response.results,
              !.has_more = HasMore(response),
              !.start_cursor = response.next_cursor,
              !.pn = @ + 1]

\* lines 133-135: one turn of the loop, after the response has arrived
FetchStep(f, response) ==
    [f EXCEPT !.blocks = @ \o response.results,
              !.has_more = HasMore(response),
              !.start_cursor = response.next_cursor,
              !.pn = @ + 1]

(***************************************************************************)
(* The final sort and re-numbering (lines 345-350).                        *)
(***************************************************************************)
\* the sort key of line 346
SortKey(blog) == strptime(blog.date)

\* InsertDesc with x put in front of the entries with an equal key
InsertDescBeforeEqual(sorted, x) ==
    LET n == Cardinality({i \in 1..Len(sorted) :
                            DateLess(SortKey(x), SortKey(sorted[i]))})
    IN  SubSeq(sorted, 1, n) \o <<x>> \o SubSeq(sorted, n + 1, Len(sorted))

\* x put into a list sorted by descending key, behind every entry whose key
\* is not smaller: list.sort(reverse=True) keeps equal keys in their order
InsertDesc(sorted, x) ==
    LET n == Cardinality({i \in 1..Len(sorted) :
                            ~DateLess(SortKey(sorted[i]), SortKey(x))})
    IN  SubSeq(sorted, 1, n) \o <<x>> \o SubSeq(sorted, n + 1, Len(sorted))

RECURSIVE SortFrom(_, _)
SortFrom(sorted, rest) ==
    IF rest = <<>> THEN sorted
    ELSE SortFrom(InsertDesc(sorted, Head(rest)), Tail(rest))

\* SortByDate with the list left as it is
SortByDateSkipped(list) == list

\* line 346: blogs.sort(key=..., reverse=True)
SortByDate(list) == SortFrom(<<>>, list)

\* ReassignIds with the ids of the main loop kept
ReassignIdsSkipped(list) == list

\* lines 349-350
ReassignIds(list) == [i \in 1..Len(list) |-> [list[i] EXCEPT !.id = i]]

(***************************************************************************)
(* The run: __main__ (lines 367-392) and sync_notion_to_blogs (274-360).   *)
(***************************************************************************)
NoMeta == [title |-> <<>>, date |-> strftime(Now), category |-> <<>>,
           tags |-> <<>>]

NoOutput == [state |-> "absent", data |-> <<>>]

\* a request to the content source, as history: what was asked, for which
\* entry and fetch_blocks call, and what came back (has_more as the loop of
\* fetch_blocks reads it, flagged when the response carries the key)
Request(op, id, cursor, entry, call, ok, response) ==
    [op |-> op, block_id |-> id, start_cursor |-> cursor, entry |-> entry,
     call |-> call, ok |-> ok, results |-> response.results,
     has_more |-> HasMore(response), flagged |-> response.has_more # None,
     next_cursor |-> response.next_cursor]

NoResponse == [results |-> <<>>, has_more |-> None, next_cursor |-> None]

Caught(entry, where) == [entry |-> entry, where |-> where]

Init ==
    /\ profile \in Profiles
    /\ NOTION_TOKEN \in {Placeholder, "secret_token"}
    /\ DATABASE_ID \in {PlaceholderDb, "database_1"}
    /\ pc = "main"
    /\ pages = <<>>
    /\ idx = 1
    /\ meta = NoMeta
    /\ fetch = NoFetch
    /\ stack = <<>>
    /\ blogs = <<>>
    /\ output = NoOutput
    /\ nblocks = 0
    /\ requests = <<>>
    /\ errors = <<>>
    /\ walks = <<>>

\* ConfigValid with one of the two values enough
ConfigValidEither(token, database_id) ==
    token # Placeholder \/ database_id # PlaceholderDb

\* line 388: the configuration is complete
ConfigValid(token, database_id) ==
    token # Placeholder /\ database_id # PlaceholderDb

\* lines 373-392
Main ==
    /\ pc = "main"
    /\ pc' = IF ConfigValid(NOTION_TOKEN, DATABASE_ID) THEN "connect" ELSE "done"
    /\ UNCHANGED <<profile, NOTION_TOKEN, DATABASE_ID, pages, idx, meta, fetch,
                   stack, blogs, output, nblocks, requests, errors, walks>>

\* lines 279-281: the client is constructed
Connect ==
    /\ pc = "connect"
    /\ pc' = "query"
    /\ UNCHANGED <<profile, NOTION_TOKEN, DATABASE_ID, pages, idx, meta, fetch,
                   stack, blogs, output, nblocks, requests, errors, walks>>

\* lines 282-285: constructing the client raised
ConnectFails ==
    /\ pc = "connect"
    /\ pc' = "done"
    /\ errors' = Append(errors, Caught(0, "Client"))
    /\ UNCHANGED <<profile, NOTION_TOKEN, DATABASE_ID, pages, idx, meta, fetch,
                   stack, blogs, output, nblocks, requests, walks>>

\* lines 288-292 and 301-302: the database is listed
Query ==
    /\ pc = "query"
    /\ \E listing \in Listings(profile) :
         /\ pages' = [k \in 1..Len(listing) |-> Entry(k, listing[k])]
         /\ requests' = Append(requests,
                Request("query", DATABASE_ID, None, 0, 0, TRUE, NoResponse))
    /\ blogs' = <<>>
    /\ idx' = 1
    /\ pc' = "loop"
    /\ UNCHANGED <<profile, NOTION_TOKEN, DATABASE_ID, meta, fetch, stack, output,
                   nblocks, errors, walks>>

\* lines 293-298: the listing raised
QueryFails ==
    /\ pc = "query"
    /\ requests' = Append(requests,
           Request("query", DATABASE_ID, None, 0, 0, FALSE, NoResponse))
    /\ errors' = Append(errors, Caught(0, "databases.query"))
    /\ pc' = "done"
    /\ UNCHANGED <<profile, NOTION_TOKEN, DATABASE_ID, pages, idx, meta, fetch,
                   stack, blogs, output, nblocks, walks>>

\* the first of the calls of lines 307-317 that raises for this property bag,
\* or "" when none does
FirstRaise(properties) ==
    CASE ~extract_published_status(properties).ok -> "extract_published_status"
      [] ~extract_title(properties).ok -> "extract_title"
      [] ~extract_date(properties).ok -> "extract_date"
      [] ~extract_category(properties).ok -> "extract_category"
      [] ~extract_tags(properties).ok -> "extract_tags"
      [] OTHER -> ""

\* IsPublished with every entry processed
IsPublishedAlways(properties) == TRUE

\* line 307: the entry is processed, not skipped
IsPublished(properties) == extract_published_status(properties).val

\* lines 302-309: an unpublished entry is skipped
SkipUnpublished ==
    /\ pc = "loop"
    /\ idx <= Len(pages)
    /\ extract_published_status(pages[idx].properties).ok
    /\ ~IsPublished(pages[idx].properties)
    /\ idx' = idx + 1
    /\ UNCHANGED <<profile, NOTION_TOKEN, DATABASE_ID, pc, pages, meta, fetch,
                   stack, blogs, output, nblocks, requests, errors, walks>>

\* AfterEntryError with the exception ending the run
AfterEntryErrorAbort == "done"

\* where the run goes when processing an entry raised (lines 341-343)
AfterEntryError == "loop"

\* lines 304-317 and 341-343: an extractor raises, the entry is given up
ExtractRaises ==
    /\ pc = "loop"
    /\ idx <= Len(pages)
    /\ FirstRaise(pages[idx].properties) # ""
    /\ (FirstRaise(pages[idx].properties) # "extract_published_status")
          => IsPublished(pages[idx].properties)
    /\ errors' = Append(errors, Caught(idx, FirstRaise(pages[idx].properties)))
    /\ idx' = idx + 1
    /\ pc' = AfterEntryError
    /\ UNCHANGED <<profile, NOTION_TOKEN, DATABASE_ID, pages, meta, fetch, stack,
                   blogs, output, nblocks, requests, walks>>

\* lines 304-321: the metadata is extracted and fetch_blocks is entered
BeginEntry ==
    /\ pc = "loop"
    /\ idx <= Len(pages)
    /\ FirstRaise(pages[idx].properties) = ""
    /\ IsPublished(pages[idx].properties)
    /\ meta' = [title |-> extract_title(pages[idx].properties).val,
                date |-> extract_date(pages[idx].properties).val,
                category |-> extract_category(pages[idx].properties).val,
                tags |-> extract_tags(pages[idx].properties).val]
    /\ fetch' = FetchStart(pages[idx].id, fetch.call + 1)
    /\ pc' = "fetch"
    /\ UNCHANGED <<profile, NOTION_TOKEN, DATABASE_ID, pages, idx, stack, blogs,
                   output, nblocks, requests, errors, walks>>

\* the blocks_to_html activation that is running
Top == stack[Len(stack)]

\* the block of the running loop iteration (line 146)
Current == Top.blocks[Top.i]

\* the stack with its running activation replaced
WithTop(frame) == [stack EXCEPT ![Len(stack)] = frame]

\* the responses so far that announced more results
Continuations ==
    Cardinality({r \in 1..Len(requests) : requests[r].has_more})

\* lines 128-137: one page of the listing arrives; after the last one
\* fetch_blocks returns and blocks_to_html is entered with what it returns
\* (lines 321-322 for the page, lines 176-177 for a block's children)
FetchPage ==
    /\ pc = "fetch"
    /\ fetch.has_more
    /\ \E response \in Responses(profile, nblocks, Continuations,
                                  Len(stack) + 1, fetch.pn + 1) :
         LET f == FetchStep(fetch, response)
         IN  /\ requests' = Append(requests,
                    Request("children", fetch.block_id, fetch.start_cursor,
                            idx, fetch.call, TRUE, response))
             /\ nblocks' = nblocks + Len(response.results)
             /\ IF f.has_more
                THEN /\ fetch' = f
                     /\ UNCHANGED <<pc, stack>>
                ELSE /\ fetch' = [NoFetch EXCEPT !.call = f.call]
                     /\ stack' = Append(stack, Frame(f.blocks, f.call))
                     /\ pc' = "render"
    /\ UNCHANGED <<profile, NOTION_TOKEN, DATABASE_ID, pages, idx, meta, blogs,
                   output, errors, walks>>

\* FetchFails with the request that raised made again
FetchFailsRetry ==
    /\ pc = "fetch"
    /\ fetch.has_more
    /\ requests' = Append(requests,
           Request("children", fetch.block_id, fetch.start_cursor,
                   idx, fetch.call, FALSE, NoResponse))
    /\ UNCHANGED <<profile, NOTION_TOKEN, DATABASE_ID, pc, pages, idx, meta,
                   fetch, stack, blogs, output, nblocks, errors, walks>>

\* lines 129-132 and 341-343: the request raises; nothing between fetch_blocks
\* and the loop of sync_notion_to_blogs catches it, and the entry is given up
FetchFails ==
    /\ pc = "fetch"
    /\ fetch.has_more
    /\ requests' = Append(requests,
           Request("children", fetch.block_id, fetch.start_cursor,
                   idx, fetch.call, FALSE, NoResponse))
    /\ errors' = Append(errors, Caught(idx, "fetch_blocks"))
    /\ fetch' = [NoFetch EXCEPT !.call = fetch.call]
    /\ stack' = <<>>
    /\ idx' = idx + 1
    /\ pc' = AfterEntryError
    /\ UNCHANGED <<profile, NOTION_TOKEN, DATABASE_ID, pages, meta, blogs, output,
                   nblocks, walks>>

\* Descend with the children fetched for every block, whatever its flag says
DescendAlways(frame) ==
    /\ stack' = WithTop(frame)
    /\ fetch' = FetchStart(Current.id, fetch.call + 1)
    /\ pc' = "fetch"

\* lines 174-176: after the block's own step, its children are fetched or the
\* loop goes on to the next sibling
Descend(frame) ==
    IF Current.has_children
    THEN /\ stack' = WithTop(frame)
         /\ fetch' = FetchStart(Current.id, fetch.call + 1)
         /\ pc' = "fetch"
    ELSE /\ stack' = WithTop([frame EXCEPT !.i = @ + 1])
         /\ UNCHANGED <<fetch, pc>>

\* lines 146-161 and 174-176: a loop iteration on a list item
RenderListItem ==
    /\ pc = "render"
    /\ Top.i <= Len(Top.blocks)
    /\ Current.type \in ListTypes
    /\ Descend(ListItemStep(Top, Current))
    /\ UNCHANGED <<profile, NOTION_TOKEN, DATABASE_ID, pages, idx, meta, blogs,
                   output, nblocks, requests, errors, walks>>

\* lines 146-148, 162-172 and 174-176: a loop iteration on any other block
RenderOther ==
    /\ pc = "render"
    /\ Top.i <= Len(Top.blocks)
    /\ Current.type \notin ListTypes
    /\ Descend(OtherStep(Top, Current))
    /\ UNCHANGED <<profile, NOTION_TOKEN, DATABASE_ID, pages, idx, meta, blogs,
                   output, nblocks, requests, errors, walks>>

\* a finished activation, as history
Walk(frame) ==
    [entry |-> idx, depth |-> Len(stack), call |-> frame.call,
     blocks |-> frame.blocks, kids |-> frame.kids, html |-> FrameResult(frame)]

\* lines 181-185 and 177-179: the walk of a block's children returns
ReturnChild ==
    /\ pc = "render"
    /\ Top.i > Len(Top.blocks)
    /\ Len(stack) > 1
    /\ stack' = [SubSeq(stack, 1, Len(stack) - 1) EXCEPT
                    ![Len(stack) - 1] = TakeChild(@, FrameResult(Top))]
    /\ walks' = Append(walks, Walk(Top))
    /\ UNCHANGED <<profile, NOTION_TOKEN, DATABASE_ID, pc, pages, idx, meta,
                   fetch, blogs, output, nblocks, requests, errors>>

\* lines 327-336; src is history: the entry the post was made from
BlogEntry(entry, m, excerpt, content_html) ==
    [id |-> entry, title |-> m.title, excerpt |-> excerpt,
     content |-> content_html, date |-> m.date, category |-> m.category,
     tags |-> m.tags, src |-> entry]

\* lines 181-185 and 322-339: the walk of the page returns, the excerpt is
\* made and the post is appended
ReturnRoot ==
    /\ pc = "render"
    /\ Top.i > Len(Top.blocks)
    /\ Len(stack) = 1
    /\ \E content_html \in {FrameResult(Top)} :
         \E excerpt \in {extract_excerpt(pages[idx].properties, content_html)} :
           blogs' = Append(blogs, BlogEntry(idx, meta, excerpt.val, content_html))
    /\ walks' = Append(walks, Walk(Top))
    /\ stack' = <<>>
    /\ idx' = idx + 1
    /\ pc' = "loop"
    /\ UNCHANGED <<profile, NOTION_TOKEN, DATABASE_ID, pages, meta, fetch, output,
                   nblocks, requests, errors>>

\* lines 345-358: the loop has ended; the posts are sorted and re-numbered,
\* and the collection is written
SortAndWrite ==
    /\ pc = "loop"
    /\ idx > Len(pages)
    /\ blogs' = ReassignIds(SortByDate(blogs))
    /\ output' = [state |-> "written", data |-> blogs']
    /\ pc' = "done"
    /\ UNCHANGED <<profile, NOTION_TOKEN, DATABASE_ID, pages, idx, meta, fetch,
                   stack, nblocks, requests, errors, walks>>

\* lines 345-350 and 359-360: the same, but opening or writing the file raised
SortAndWriteFails ==
    /\ pc = "loop"
    /\ idx > Len(pages)
    /\ blogs' = ReassignIds(SortByDate(blogs))
    /\ output' = [state |-> "failed", data |-> <<>>]
    /\ errors' = Append(errors, Caught(0, "write"))
    /\ pc' = "done"
    /\ UNCHANGED <<profile, NOTION_TOKEN, DATABASE_ID, pages, idx, meta, fetch,
                   stack, nblocks, requests, walks>>

Next ==
    \/ Main
    \/ Connect
    \/ ConnectFails
    \/ Query
    \/ QueryFails
    \/ SkipUnpublished
    \/ ExtractRaises
    \/ BeginEntry
    \/ FetchPage
    \/ FetchFails
    \/ RenderListItem
    \/ RenderOther
    \/ ReturnChild
    \/ ReturnRoot
    \/ SortAndWrite
    \/ SortAndWriteFails

InitWalk == Init /\ profile = "walk"

InitSync == Init /\ profile = "sync"

InitProps == Init /\ profile = "props"

InitRich == Init /\ profile = "rich"

InitExcerpt == Init /\ profile = "excerpt"

InitGaps == Init /\ profile = "gaps"

InitPages == Init /\ profile = "pages"

InitTree == Init /\ profile = "tree"

\* every profile
Spec == Init /\ [][Next]_vars

\* the walker's claims: one entry, block trees of every shape
SpecWalk == InitWalk /\ [][Next]_vars

\* the orchestrator's claims: several entries
SpecSync == InitSync /\ [][Next]_vars

\* the extractors' claims: one entry, property bags of every kind
SpecProps == InitProps /\ [][Next]_vars

\* the rich-text renderer's claims
SpecRich == InitRich /\ [][Next]_vars

\* the excerpt's claims
SpecExcerpt == InitExcerpt /\ [][Next]_vars

\* the claims about blocks that render to nothing
SpecGaps == InitGaps /\ [][Next]_vars

\* the order of the requests: deep trees in several entries
SpecTree == InitTree /\ [][Next]_vars

\* the run goes on as long as it has a step to take: a Python program in one
\* thread, whose every step either finishes or raises
SpecPages == InitPages /\ [][Next]_vars /\ WF_vars(Next)

(***************************************************************************)
(* Helpers of the claims.                                                  *)
(***************************************************************************)
\* the offsets at which sub occurs in s as a contiguous piece
Positions(sub, s) ==
    {p \in 0..(Len(s) - Len(sub)) : SubSeq(s, p + 1, p + Len(sub)) = sub}

\* the offsets of the token tok in s
TokenAt(tok, s) == {p \in 1..Len(s) : s[p] = tok}

\* the HTML the walk w took from the children of its block with this id
KidHtml(w, id) ==
    w.kids[CHOOSE k \in 1..Len(w.kids) : w.kids[k].id = id].html

\* the blocks of w that have children
Parents(w) == {i \in 1..Len(w.blocks) : w.blocks[i].has_children}

(***************************************************************************)
(* C1.  For every block of a sibling sequence that has children, list item *)
(* or not, the output of blocks_to_html holds the block's own fragment     *)
(* immediately followed by the rendered fragment of its children, and no   *)
(* content of the children or of a later sibling comes before the block's  *)
(* own fragment.  Stated of every finished activation; the code breaks it  *)
(* for a list item, whose <li> waits in list_buffer while the children's   *)
(* HTML goes to html_parts at once.                                        *)
(***************************************************************************)
C1_OwnThenChildren ==
    \A n \in 1..Len(walks) :
        LET w == walks[n]
        IN  \A i \in Parents(w) :
                LET own == notion_block_to_html(w.blocks[i])
                    kid == KidHtml(w, w.blocks[i].id)
                IN  /\ Positions(own \o kid, w.html) # {}
                    /\ own # <<>> =>
                         \A p \in Positions(own, w.html) :
                             /\ \A q \in Positions(kid, w.html) :
                                    kid # <<>> => p < q
                             /\ \A j \in (i + 1)..Len(w.blocks) :
                                    \A q \in TokenAt(w.blocks[j].id, w.html) :
                                        p < q

(***************************************************************************)
(* C2.  A run of one or more consecutive list items of the same kind that  *)
(* is followed by a non-list block comes out as exactly one container (ul  *)
(* for bulleted, ol for numbered) that holds the li fragments of all items *)
(* of the run in order, and the container is closed and in the output      *)
(* before the fragment of the non-list block.                              *)
(***************************************************************************)
\* the runs <<i, j>> of blocks: items i..j are list items of one kind, no item
\* of that kind precedes i directly, and block j + 1 is not a list item
RunsBeforeOther(blocks) ==
    {r \in (1..Len(blocks)) \X (1..Len(blocks)) :
        /\ r[1] <= r[2]
        /\ r[2] < Len(blocks)
        /\ blocks[r[1]].type \in ListTypes
        /\ \A k \in r[1]..r[2] : blocks[k].type = blocks[r[1]].type
        /\ r[1] > 1 => blocks[r[1] - 1].type # blocks[r[1]].type
        /\ blocks[r[2] + 1].type \notin ListTypes}

\* the container the claim expects for items i..j of blocks
ExpectedContainer(blocks, i, j) ==
    LET bulleted == blocks[i].type = "bulleted_list_item"
    IN  <<IF bulleted THEN "<ul>" ELSE "<ol>">>
            \o Join([k \in 1..(j - i + 1) |->
                        <<"<li>", blocks[i + k - 1].id, "</li>">>])
            \o <<IF bulleted THEN "</ul>" ELSE "</ol>">>

C2_OneContainerBeforeOther ==
    \A n \in 1..Len(walks) :
        LET w == walks[n]
        IN  \A r \in RunsBeforeOther(w.blocks) :
                LET box == ExpectedContainer(w.blocks, r[1], r[2])
                    other == notion_block_to_html(w.blocks[r[2] + 1])
                IN  /\ Cardinality(Positions(box, w.html)) = 1
                    /\ \A k \in r[1]..r[2] :
                         Cardinality(TokenAt(w.blocks[k].id, w.html)) = 1
                    /\ other # <<>> =>
                         \A p \in Positions(box, w.html) :
                             /\ Positions(other, w.html) # {}
                             /\ \A q \in Positions(other, w.html) :
                                    p + Len(box) <= q

\* a finished walk with a run of two or more items before a block that renders
C2_Witness ==
    \E n \in 1..Len(walks) :
        \E r \in RunsBeforeOther(walks[n].blocks) :
            /\ r[2] > r[1]
            /\ notion_block_to_html(walks[n].blocks[r[2] + 1]) # <<>>

(***************************************************************************)
(* C3.  fetch_blocks returns the concatenation, in page order, of the      *)
(* results of every page of the listing: the first request carries no      *)
(* cursor, each later one the next_cursor of the response before it, the   *)
(* call goes on exactly while the response announces more results, and the *)
(* walk of a sibling set starts only after its last page has arrived.      *)
(***************************************************************************)
\* the requests of fetch_blocks call c, in the order they were made
RequestsOf(c) ==
    LET at == {r \in 1..Len(requests) :
                  requests[r].op = "children" /\ requests[r].call = c}
        nth(k) == CHOOSE r \in at : Cardinality({q \in at : q <= r}) = k
    IN  [k \in 1..Cardinality(at) |-> requests[nth(k)]]

RECURSIVE AllResults(_)
\* the blocks of a sequence of responses, page after page
AllResults(rs) ==
    IF rs = <<>> THEN <<>> ELSE Head(rs).results \o AllResults(Tail(rs))

\* the cursors of call c are chained and its loop went on only when told to
Chained(c) ==
    LET rs == RequestsOf(c)
    IN  \A k \in 1..Len(rs) :
            /\ k = 1 => rs[k].start_cursor = None
            /\ k > 1 => /\ rs[k - 1].ok
                        /\ rs[k - 1].has_more
                        /\ rs[k - 1].next_cursor # None
                        /\ rs[k].start_cursor = rs[k - 1].next_cursor

\* call c has returned these blocks: all its pages, the last one included
ReturnedAll(c, blocks) ==
    LET rs == RequestsOf(c)
    IN  /\ rs # <<>>
        /\ rs[Len(rs)].ok
        /\ ~rs[Len(rs)].has_more
        /\ blocks = AllResults(rs)

C3_FetchConcatenatesAllPages ==
    /\ \A c \in 1..fetch.call : Chained(c)
    /\ pc = "fetch" => fetch.blocks = AllResults(RequestsOf(fetch.call))
    /\ \A k \in 1..Len(stack) : ReturnedAll(stack[k].call, stack[k].blocks)
    /\ \A n \in 1..Len(walks) : ReturnedAll(walks[n].call, walks[n].blocks)

\* a walk over blocks that came in two pages, both with blocks
C3_Witness ==
    \E n \in 1..Len(walks) :
        LET rs == RequestsOf(walks[n].call)
        IN  /\ Len(rs) = 2
            /\ rs[1].results # <<>>
            /\ rs[2].results # <<>>

(***************************************************************************)
(* Helpers of the orchestrator's claims.                                   *)
(***************************************************************************)
\* the entries whose processing raised
FailedEntries == {errors[k].entry : k \in 1..Len(errors)} \ {0}

\* the entries the loop is through with
Processed == {k \in 1..Len(pages) : k < idx}

\* the posts of a list that were made from entry k
PostsOf(list, k) == {i \in 1..Len(list) : list[i].src = k}

\* the post is the one its entry yields, whatever happened to other entries
PostOfEntry(post, entry) ==
    /\ post.title = extract_title(entry.properties).val
    /\ post.date = extract_date(entry.properties).val
    /\ post.category = extract_category(entry.properties).val
    /\ post.tags = extract_tags(entry.properties).val
    /\ post.excerpt = extract_excerpt(entry.properties, post.content).val

WriteFailed == \E k \in 1..Len(errors) : errors[k].where = "write"

QueryFailed ==
    \E r \in 1..Len(requests) : requests[r].op = "query" /\ ~requests[r].ok

(***************************************************************************)
(* C4.  An exception raised while one entry is processed removes only that *)
(* entry: the loop goes on with the next entry, every other published      *)
(* entry yields its own post, and the run still gets to write the output   *)
(* (the collection is written unless the write itself fails).              *)
(***************************************************************************)
C4_EntryErrorSkipsOnlyThatEntry ==
    /\ \A k \in FailedEntries : k \in Processed /\ PostsOf(blogs, k) = {}
    /\ \A k \in Processed \ FailedEntries :
         IsPublished(pages[k].properties) =>
             /\ Cardinality(PostsOf(blogs, k)) = 1
             /\ \A i \in PostsOf(blogs, k) : PostOfEntry(blogs[i], pages[k])
    /\ FailedEntries # {} /\ pc = "done" =>
         /\ output.state = "written" \/ WriteFailed
         /\ output.state = "written" =>
              {output.data[i].src : i \in 1..Len(output.data)} =
                  {k \in 1..Len(pages) : IsPublished(pages[k].properties)}
                      \ FailedEntries

\* the first entry failed, the second one is in the written collection
C4_Witness ==
    /\ pc = "done"
    /\ output.state = "written"
    /\ 1 \in FailedEntries
    /\ PostsOf(output.data, 2) # {}

(***************************************************************************)
(* C5.  A page whose Status is select-typed with value "Draft" is not in   *)
(* the written collection and takes no id: the ids of the written posts    *)
(* are 1, 2, ..., n in array order, whatever entries were skipped or       *)
(* failed.                                                                 *)
(***************************************************************************)
\* the Status property is select-typed with the value "Draft"
IsDraft(properties) ==
    /\ "Status" \in DOMAIN properties
    /\ properties["Status"].type = "select"
    /\ properties["Status"].select = Some(Name(Draft))

C5_DraftsTakeNoId ==
    output.state = "written" =>
        /\ \A i \in 1..Len(output.data) : output.data[i].id = i
        /\ \A k \in 1..Len(pages) :
               IsDraft(pages[k].properties) => PostsOf(output.data, k) = {}

\* a draft came before an entry that was written: its number was not kept
C5_Witness ==
    /\ output.state = "written"
    /\ \E k \in 1..Len(pages) :
           /\ IsDraft(pages[k].properties)
           /\ \E i \in 1..Len(output.data) : output.data[i].src > k

(***************************************************************************)
(* C6.  The written posts are in descending order of their parsed dates:   *)
(* for positions i < j the date of post i is not earlier than the date of  *)
(* post j.                                                                 *)
(***************************************************************************)
C6_DescendingDates ==
    output.state = "written" =>
        \A i, j \in 1..Len(output.data) :
            i < j => ~DateLess(strptime(output.data[i].date),
                               strptime(output.data[j].date))

\* the later entry of the listing has the later date and was written first
C6_Witness ==
    /\ output.state = "written"
    /\ Len(output.data) >= 2
    /\ output.data[1].src > output.data[2].src
    /\ output.data[1].date # output.data[2].date

(***************************************************************************)
(* C7.  The final sort is stable: two posts with identical dates are       *)
(* written in the order in which their entries were processed.             *)
(***************************************************************************)
C7_StableSort ==
    output.state = "written" =>
        \A i, j \in 1..Len(output.data) :
            i < j /\ output.data[i].date = output.data[j].date
                => output.data[i].src < output.data[j].src

\* two posts with the same date were written
C7_Witness ==
    /\ output.state = "written"
    /\ \E i, j \in 1..Len(output.data) :
           i < j /\ output.data[i].date = output.data[j].date

(***************************************************************************)
(* C8.  Every property extractor is tolerant: a property that is missing,  *)
(* has the wrong declared type or carries a malformed value (a date whose  *)
(* start is no ISO-8601 timestamp) makes the extractor return its          *)
(* documented default, and the extractor does not raise.  Stated of the    *)
(* entries the loop is through with: none of them was given up because an  *)
(* extractor raised, and the post of an entry holds the default of every   *)
(* property its bag does not usably give.  The code breaks it in           *)
(* extract_date, where fromisoformat raises on a malformed string.         *)
(***************************************************************************)
Extractors ==
    {"extract_published_status", "extract_title", "extract_date",
     "extract_category", "extract_tags", "extract_excerpt"}

\* the property under the primary key, else under the alias, else None
Named(properties, primary, alias) ==
    IF primary \in DOMAIN properties THEN Some(properties[primary])
    ELSE IF alias \in DOMAIN properties THEN Some(properties[alias])
    ELSE None

\* the bag gives no usable date: none, one of another type, or a malformed one
NoUsableDate(properties) ==
    LET d == Named(properties, "Date", "Published")
    IN  \/ d = None
        \/ d[1].type \notin {"date", "created_time"}
        \/ d[1].type = "date" /\ d[1].date = None
        \/ d[1].type = "date" /\ d[1].date # None
              /\ d[1].date[1].start.kind # "iso"
        \/ d[1].type = "created_time" /\ d[1].created_time.kind # "iso"

NoUsableTitle(properties) ==
    LET t == Named(properties, "Title", "Name")
    IN  t = None \/ t[1].type # "title"

NoUsableCategory(properties) ==
    LET c == Named(properties, "Category", "Type")
    IN  \/ c = None
        \/ c[1].type \notin {"select", "multi_select"}
        \/ c[1].type = "select" /\ c[1].select = None
        \/ c[1].type = "multi_select" /\ c[1].multi_select = <<>>

NoUsableTags(properties) ==
    LET t == Named(properties, "Tags", "Labels")
    IN  t = None \/ t[1].type # "multi_select"

C8_ExtractorsTolerant ==
    \A k \in Processed :
        LET properties == pages[k].properties
        IN  /\ \A e \in 1..Len(errors) :
                   errors[e].entry = k => errors[e].where \notin Extractors
            /\ \A i \in PostsOf(blogs, k) :
                   /\ NoUsableTitle(properties) =>
                          blogs[i].title = <<"Untitled">>
                   /\ NoUsableDate(properties) =>
                          blogs[i].date = [b |-> "Mar", d |-> 9, Y |-> 2024]
                   /\ NoUsableCategory(properties) =>
                          blogs[i].category = <<"General">>
                   /\ NoUsableTags(properties) => blogs[i].tags = <<>>

(***************************************************************************)
(* C9.  With the token or the database id missing (its placeholder in      *)
(* effect) the run ends without any request to the content source and      *)
(* without writing the output; when the database listing fails the run     *)
(* ends without any children request and without writing the output.       *)
(***************************************************************************)
C9_AbortsWriteNothing ==
    /\ NOTION_TOKEN = Placeholder \/ DATABASE_ID = PlaceholderDb =>
         /\ pc \in {"main", "done"}
         /\ requests = <<>>
         /\ output = NoOutput
    /\ QueryFailed =>
         /\ pc = "done"
         /\ \A r \in 1..Len(requests) : requests[r].op # "children"
         /\ output = NoOutput

\* the run has ended on a failed listing
C9_Witness == pc = "done" /\ QueryFailed

(***************************************************************************)
(* C10.  extract_published_status gives the checkbox's value for a         *)
(* checkbox-typed status property ("Status", else "Published"); for a      *)
(* select-typed one with a selected value, true exactly when the value's   *)
(* name is, ignoring case, one of published / live / public; and true when *)
(* the property is absent.  A page for which it gives false produces no    *)
(* post.  (A select-typed property with nothing selected has no name to    *)
(* compare; the code counts it as published, like any other type.)         *)
(***************************************************************************)
\* the same characters, ignoring case
SameIgnoringCase(a, b) ==
    /\ Len(a) = Len(b)
    /\ \A i \in 1..Len(a) : LowerChar(a[i]) = LowerChar(b[i])

\* the three cases the claim is about
StatusCovered(properties) ==
    LET sp == Named(properties, "Status", "Published")
    IN  \/ sp = None
        \/ sp[1].type = "checkbox"
        \/ sp[1].type = "select" /\ sp[1].select # None

\* the status the claim gives in those cases
StatusClaimed(properties) ==
    LET sp == Named(properties, "Status", "Published")
    IN  IF sp = None THEN TRUE
        ELSE IF sp[1].type = "checkbox" THEN sp[1].checkbox
        ELSE \E n \in {<<"p", "u", "b", "l", "i", "s", "h", "e", "d">>,
                       <<"l", "i", "v", "e">>,
                       <<"p", "u", "b", "l", "i", "c">>} :
                 SameIgnoringCase(sp[1].select[1].name, n)

OpeningTags(span) ==
    (IF span.href # None THEN <<"<a href=\"">> \o span.href[1] \o <<"\">">>
     ELSE <<>>)
        \o (IF span.strikethrough THEN <<"<s>">> ELSE <<>>)
        \o (IF span.code THEN <<"<code>">> ELSE <<>>)
        \o (IF span.italic THEN <<"<em>">> ELSE <<>>)
        \o (IF span.bold THEN <<"<strong>">> ELSE <<>>)

\* the tags that close a piece, innermost first
ClosingTags(span) ==
    (IF span.bold THEN <<"</strong>">> ELSE <<>>)
        \o (IF span.italic THEN <<"</em>">> ELSE <<>>)
        \o (IF span.code THEN <<"</code>">> ELSE <<>>)
        \o (IF span.strikethrough THEN <<"</s>">> ELSE <<>>)
        \o (IF span.href # None THEN <<"</a>">> ELSE <<>>)

\* the pieces of the spans, one after the other
PiecesOf(spans) ==
    Join([k \in 1..Len(spans) |->
             OpeningTags(spans[k]) \o spans[k].plain_text
                 \o ClosingTags(spans[k])])

C11_RichTextComposes ==
    \A n \in 1..Len(walks) :
        \A i \in 1..Len(walks[n].blocks) :
            LET block == walks[n].blocks[i]
                text == PiecesOf(block.rich_text)
            IN  /\ notion_rich_text_to_html(block.rich_text) = text
                /\ block.rich_text = <<>> =>
                       notion_rich_text_to_html(block.rich_text) = <<>>
                /\ block.type = "paragraph" /\ text # <<>> =>
                       Positions(<<"<p>">> \o text \o <<"</p>">>,
                                 walks[n].html) # {}
                /\ block.type = "paragraph" /\ block.rich_text = <<>>
                      /\ Len(walks[n].blocks) = 1 /\ ~block.has_children =>
                       walks[n].html = <<>>

\* a paragraph of one span that is bold, italic, code, struck through and a
\* link has been rendered, with the tags nested in that order
C11_Witness ==
    \E n \in 1..Len(walks) :
        /\ Len(walks[n].blocks) = 1
        /\ walks[n].blocks[1].rich_text
               = <<Annotated(<<"a">>, TRUE, TRUE, TRUE, TRUE, Some(<<"u">>))>>
        /\ walks[n].html
               = <<"<p>", "<a href=\"", "u", "\">", "<s>", "<code>", "<em>",
                   "<strong>", "a", "</strong>", "</em>", "</code>", "</s>",
                   "</a>", "</p>">>

(***************************************************************************)
(* C12.  The excerpt of a post is the concatenated plain text of the       *)
(* rich_text-typed excerpt property ("Excerpt", else "Summary") when that  *)
(* text is not empty; otherwise the text of the first paragraph of the     *)
(* rendered content without its tags, cut to its first 200 characters and  *)
(* an ellipsis when it is longer than 200 characters; and the literal      *)
(* "No excerpt available." when the content has no paragraph.              *)
(***************************************************************************)
\* the plain text of the explicit excerpt property, empty when there is none
ExplicitExcerpt(properties) ==
    LET ep == Named(properties, "Excerpt", "Summary")
    IN  IF ep # None /\ ep[1].type = "rich_text"
        THEN Join([k \in 1..Len(ep[1].rich_text) |->
                      ep[1].rich_text[k].plain_text])
        ELSE <<>>

\* a token of text, not of markup
IsText(tok) == ~IsTag(tok)

\* the text of the first paragraph of the content, which has one
FirstParagraphText(content) ==
    LET open == CHOOSE a \in TokenAt("<p>", content) :
                    \A b \in TokenAt("<p>", content) : a <= b
        close == CHOOSE a \in TokenAt("</p>", content) :
                     a > open /\ \A b \in TokenAt("</p>", content) :
                                     b > open => a <= b
    IN  SelectSeq(SubSeq(content, open + 1, close - 1), IsText)

\* the excerpt the claim gives
ClaimedExcerpt(properties, content) ==
    IF ExplicitExcerpt(properties) # <<>> THEN ExplicitExcerpt(properties)
    ELSE IF TokenAt("<p>", content) # {}
    THEN LET text == FirstParagraphText(content)
         IN  IF Len(text) > 200 THEN SubSeq(text, 1, 200) \o <<"...">>
             ELSE text
    ELSE <<"No excerpt available.">>

C12_ExcerptFallback ==
    \A i \in 1..Len(blogs) :
        blogs[i].excerpt
            = ClaimedExcerpt(pages[blogs[i].src].properties, blogs[i].content)

(***************************************************************************)
(* C13.  No request is retried: after a request to the content source has  *)
(* failed (the database listing, or the listing of a block's children),    *)
(* the same request is not made again in the run, and no further request   *)
(* is made for the entry in which it failed (none at all after a failed    *)
(* database listing); an entry given up in an extractor has no request.    *)
(***************************************************************************)
\* the two requests ask the same thing
SameRequest(a, b) ==
    /\ a.op = b.op
    /\ a.block_id = b.block_id
    /\ a.start_cursor = b.start_cursor

C13_NoRetry ==
    /\ \A i \in 1..Len(requests) :
           ~requests[i].ok =>
               \A j \in (i + 1)..Len(requests) :
                   /\ ~SameRequest(requests[i], requests[j])
                   /\ requests[j].entry # requests[i].entry
                   /\ requests[i].op # "query"
    /\ \A e \in 1..Len(errors) :
           errors[e].where \in Extractors =>
               \A j \in 1..Len(requests) : requests[j].entry # errors[e].entry
    /\ pc = "fetch" => idx \notin FailedEntries

\* the listing of the children of an entry's block has failed, and a later
\* entry has made its requests
C13_Witness ==
    \E i \in 1..Len(requests) :
        /\ ~requests[i].ok
        /\ requests[i].op = "children"
        /\ requests[i].call > 1
        /\ \E j \in (i + 1)..Len(requests) :
               requests[j].entry > requests[i].entry /\ requests[j].ok

(***************************************************************************)
(* C14.  For a sibling sequence whose blocks have no children, the result  *)
(* of blocks_to_html holds one container for every maximal run of          *)
(* consecutive list items of one kind, in document order, ul for bulleted  *)
(* and ol for numbered items: a change of kind closes the container and    *)
(* opens one of the other kind, a run at the end of the sequence is        *)
(* emitted too, and every list item is in exactly one container.           *)
(***************************************************************************)
\* the block at i starts a maximal run of list items of one kind
StartsRun(blocks, i) ==
    /\ blocks[i].type \in ListTypes
    /\ i > 1 => blocks[i - 1].type # blocks[i].type

\* the last block of the maximal run that starts at i
EndOfRun(blocks, i) ==
    CHOOSE j \in i..Len(blocks) :
        /\ \A k \in i..j : blocks[k].type = blocks[i].type
        /\ j < Len(blocks) => blocks[j + 1].type # blocks[i].type

\* what the block at i brings to the result: the container of the run it
\* starts, nothing more as a later item of a run, its fragment otherwise
Contribution(blocks, i) ==
    IF StartsRun(blocks, i)
    THEN ExpectedContainer(blocks, i, EndOfRun(blocks, i))
    ELSE IF blocks[i].type \in ListTypes THEN <<>>
    ELSE notion_block_to_html(blocks[i])

C14_OneContainerPerRun ==
    \A n \in 1..Len(walks) :
        Parents(walks[n]) = {} =>
            /\ walks[n].html
                   = Join([i \in 1..Len(walks[n].blocks) |->
                              Contribution(walks[n].blocks, i)])
            /\ \A i \in 1..Len(walks[n].blocks) :
                   walks[n].blocks[i].type \in ListTypes =>
                       Cardinality(Positions(
                           <<"<li>", walks[n].blocks[i].id, "</li>">>,
                           walks[n].html)) = 1

\* a walk of three blocks without children has ended in which a bulleted item
\* is directly followed by a numbered one and a list item is the last block
C14_Witness ==
    \E n \in 1..Len(walks) :
        /\ Parents(walks[n]) = {}
        /\ Len(walks[n].blocks) = 3
        /\ walks[n].blocks[3].type \in ListTypes
        /\ \E i \in 1..2 :
               /\ walks[n].blocks[i].type = "bulleted_list_item"
               /\ walks[n].blocks[i + 1].type = "numbered_list_item"
        /\ Cardinality(TokenAt("<ul>", walks[n].html)
                           \cup TokenAt("<ol>", walks[n].html)) >= 2

(***************************************************************************)
(* C15.  A block that is no list item closes the open list container also  *)
(* when it renders to the empty string (a paragraph without text, an image *)
(* without a URL, a block of unknown kind): two list items of one kind     *)
(* with only such blocks between them are in two containers, the first the *)
(* last item of its container and the second the first item of its own;    *)
(* such a block brings nothing to the result; and rendering it raises no   *)
(* exception.                                                              *)
(***************************************************************************)
\* a block that is no list item and renders to the empty string
RendersToNothing(block) ==
    /\ block.type \notin ListTypes
    /\ notion_block_to_html(block) = <<>>

\* the pairs of list items of one kind with only such blocks between them
SeparatedItems(blocks) ==
    {r \in (1..Len(blocks)) \X (1..Len(blocks)) :
        /\ r[1] + 1 < r[2]
        /\ blocks[r[1]].type \in ListTypes
        /\ blocks[r[2]].type = blocks[r[1]].type
        /\ \A k \in (r[1] + 1)..(r[2] - 1) : RendersToNothing(blocks[k])}

\* the tag that opens (closes) the container of a list item
OpenTag(block) == IF block.type = "bulleted_list_item" THEN "<ul>" ELSE "<ol>"

CloseTag(block) == IF block.type = "bulleted_list_item" THEN "</ul>" ELSE "</ol>"

C15_EmptyBlockClosesList ==
    /\ \A n \in 1..Len(walks) :
           LET blocks == walks[n].blocks
               html == walks[n].html
           IN  /\ \A r \in SeparatedItems(blocks) :
                      /\ Positions(<<"<li>", blocks[r[1]].id, "</li>",
                                      CloseTag(blocks[r[1]])>>, html) # {}
                      /\ Positions(<<OpenTag(blocks[r[2]]), "<li>",
                                      blocks[r[2]].id>>, html) # {}
               /\ Parents(walks[n]) = {} =>
                      html = Join([i \in 1..Len(blocks) |->
                                      IF RendersToNothing(blocks[i]) THEN <<>>
                                      ELSE Contribution(blocks, i)])
    /\ \A e \in 1..Len(errors) :
           errors[e].where \in Extractors \cup {"Client", "databases.query",
                                                "fetch_blocks", "write"}

\* the walk of a bulleted item, an image without a URL and a bulleted item has
\* ended, with two containers of one item each
C15_Witness ==
    \E n \in 1..Len(walks) :
        /\ Len(walks[n].blocks) = 3
        /\ walks[n].blocks[1].type = "bulleted_list_item"
        /\ walks[n].blocks[2].type = "image"
        /\ walks[n].blocks[3].type = "bulleted_list_item"
        /\ walks[n].html = <<"<ul>", "<li>", "a", "</li>", "</ul>",
                             "<ul>", "<li>", "c", "</li>", "</ul>">>

(***************************************************************************)
(* C16.  Children are fetched synchronously and depth first: the children  *)
(* of a block are requested only when the block is marked as having        *)
(* children, and after its own fragment was rendered; all pages of a       *)
(* listing are fetched before any block of it is rendered; the subtree of  *)
(* a block is fetched and rendered before its next sibling is looked at;   *)
(* so the children requests of an entry follow the pre-order of its block  *)
(* tree, and the requests of two entries do not interleave.                *)
(***************************************************************************)
\* the children requests, in the order they were made
ChildrenRequests == SelectSeq(requests, LAMBDA r : r.op = "children")

\* the requests made for the children of this block or page, in their order
RequestsFor(id) == SelectSeq(ChildrenRequests, LAMBDA r : r.block_id = id)

\* the calls of fetch_blocks that made them
CallsFor(id) == {RequestsFor(id)[r].call : r \in 1..Len(RequestsFor(id))}

RECURSIVE PreOrder(_)
\* the ids of the blocks with children, in the pre-order of the tree, whose
\* edges are the answers of the source
PreOrder(blocks) ==
    IF blocks = <<>> THEN <<>>
    ELSE (IF Head(blocks).has_children
          THEN <<Head(blocks).id>>
                   \o PreOrder(AllResults(RequestsFor(Head(blocks).id)))
          ELSE <<>>)
             \o PreOrder(Tail(blocks))

\* what the calls of fetch_blocks of an entry asked for, call after call (the
\* first request of a call is the one without a cursor)
AskedFor(entry) ==
    LET first == SelectSeq(ChildrenRequests,
                           LAMBDA r : r.entry = entry /\ r.start_cursor = None)
    IN  [k \in 1..Len(first) |-> first[k].block_id]

\* every page of the listing had arrived when the walk of its blocks began
AllPagesFetched(frame) ==
    LET rs == SelectSeq(ChildrenRequests, LAMBDA r : r.call = frame.call)
    IN  /\ rs # <<>>
        /\ ~rs[Len(rs)].has_more
        /\ frame.blocks = AllResults(rs)

\* the fragment of the running iteration's block is the last one rendered
OwnFragmentRendered(frame) ==
    LET block == frame.blocks[frame.i]
        html == notion_block_to_html(block)
    IN  IF block.type \in ListTypes
        THEN /\ frame.list_buffer # <<>>
             /\ frame.list_buffer[Len(frame.list_buffer)] = html
        ELSE html # <<>> =>
                 /\ frame.html_parts # <<>>
                 /\ frame.html_parts[Len(frame.html_parts)] = html

C16_DepthFirstFetching ==
    /\ \A r \in 1..Len(ChildrenRequests) :
           LET req == ChildrenRequests[r]
           IN  \/ req.block_id = pages[req.entry].id
               \/ \E q \in 1..(r - 1) :
                      \E b \in 1..Len(ChildrenRequests[q].results) :
                          /\ ChildrenRequests[q].results[b].id = req.block_id
                          /\ ChildrenRequests[q].results[b].has_children
    /\ \A r \in 1..(Len(ChildrenRequests) - 1) :
           /\ ChildrenRequests[r].call <= ChildrenRequests[r + 1].call
           /\ ChildrenRequests[r].entry <= ChildrenRequests[r + 1].entry
    /\ \A k \in 1..Len(stack) :
           /\ AllPagesFetched(stack[k])
           /\ k < Len(stack) \/ pc = "fetch" =>
                  /\ stack[k].i <= Len(stack[k].blocks)
                  /\ stack[k].blocks[stack[k].i].has_children
                  /\ OwnFragmentRendered(stack[k])
           /\ k < Len(stack) =>
                  CallsFor(stack[k].blocks[stack[k].i].id) = {stack[k + 1].call}
    /\ pc = "fetch" /\ stack # <<>> => fetch.block_id = Current.id
    /\ \A n \in 1..Len(walks) :
           walks[n].depth = 1 =>
               AskedFor(walks[n].entry)
                   = <<pages[walks[n].entry].id>> \o PreOrder(walks[n].blocks)

\* the walk of a page has ended whose first block has a child with children
\* of its own and whose second block has children too: four calls of
\* fetch_blocks, the grandchildren asked for before the second block's children
C16_Witness ==
    \E n \in 1..Len(walks) :
        /\ walks[n].depth = 1
        /\ Len(walks[n].blocks) = 2
        /\ AskedFor(walks[n].entry) = <<"P1", "a", "c", "b">>

(***************************************************************************)
(* C17.  The collection a run writes holds exactly one post for every      *)
(* entry of the database listing that extract_published_status gives as    *)
(* published and whose processing raised no exception, and no other post:  *)
(* no entry has two posts and no such entry is missing.                    *)
(***************************************************************************)
\* the entries of the listing that are to have a post
ToBePosted ==
    {k \in 1..Len(pages) :
        /\ extract_published_status(pages[k].properties) = Return(TRUE)
        /\ \A e \in 1..Len(errors) : errors[e].entry # k}

C17_OnePostPerPublishedEntry ==
    output.state = "written" =>
        /\ \A k \in ToBePosted : Cardinality(PostsOf(output.data, k)) = 1
        /\ \A i \in 1..Len(output.data) : output.data[i].src \in ToBePosted
        /\ Len(output.data) = Cardinality(ToBePosted)

\* a listing of two published entries and one entry given up has been written
\* as two posts
C17_Witness ==
    /\ output.state = "written"
    /\ Len(pages) = 3
    /\ Cardinality(FailedEntries) = 1
    /\ Cardinality(ToBePosted) = 2
    /\ Len(output.data) = 2

(***************************************************************************)
(* C18.  In every activation of blocks_to_html, at the start of each loop  *)
(* iteration and at the final flush (and while it waits for the walk of a  *)
(* block's children), the list buffer is non-empty exactly when a current  *)
(* list kind, ul or ol, is set; the buffer holds only items of the current *)
(* kind; and no container was emitted with an unset kind or without items. *)
(***************************************************************************)
\* the block type whose items the kind of list holds
TypeOfKind(current_list_type) ==
    IF current_list_type = "ul" THEN "bulleted_list_item"
    ELSE "numbered_list_item"

\* the HTML holds a container of no kind, or one without items
BadContainer(html) ==
    \/ TokenAt("<None>", html) # {}
    \/ TokenAt("</None>", html) # {}
    \/ Positions(<<"<ul>", "</ul>">>, html) # {}
    \/ Positions(<<"<ol>", "</ol>">>, html) # {}

C18_ListStateInvariant ==
    /\ \A k \in 1..Len(stack) :
           LET frame == stack[k]
           IN  /\ frame.current_list_type \in {"None", "ul", "ol"}
               /\ frame.list_buffer # <<>>
                      <=> frame.current_list_type \in {"ul", "ol"}
               /\ \A e \in 1..Len(frame.list_buffer) :
                      \E j \in 1..Len(frame.blocks) :
                          /\ j <= frame.i
                          /\ frame.blocks[j].type
                                 = TypeOfKind(frame.current_list_type)
                          /\ frame.list_buffer[e]
                                 = <<"<li>", frame.blocks[j].id, "</li>">>
               /\ ~BadContainer(Join(frame.html_parts))
    /\ \A n \in 1..Len(walks) : ~BadContainer(walks[n].html)

\* an activation is at its final flush with numbered items in the buffer,
\* after it closed a list of bulleted items
C18_Witness ==
    /\ pc = "render"
    /\ Top.i > Len(Top.blocks)
    /\ Top.current_list_type = "ol"
    /\ Top.list_buffer # <<>>
    /\ TokenAt("<ul>", Join(Top.html_parts)) # {}

(***************************************************************************)
(* C19.  The walk of a block's children leaves the list state of the       *)
(* parent's activation as it was: from the request for the children until  *)
(* the child walk has returned, the parent's list buffer and current list  *)
(* kind do not change.  So two list items of one kind that follow each     *)
(* other are in one container also when the first has children, and a list *)
(* item among the children is never next to an item of the parent in a     *)
(* container: the children's items have a container of their own.          *)
(***************************************************************************)
\* a step leaves the list state of every waiting activation as it was
WaitingListStateKept ==
    \A k \in 1..Len(stack) :
        (k < Len(stack) \/ pc = "fetch") /\ k <= Len(stack') =>
            /\ stack'[k].list_buffer = stack[k].list_buffer
            /\ stack'[k].current_list_type = stack[k].current_list_type

\* the ids of the list items among the children of the blocks of the walk w
ChildItems(w) ==
    UNION {LET kids == AllResults(RequestsFor(w.blocks[i].id))
           IN  {kids[b].id : b \in {x \in 1..Len(kids) :
                                       kids[x].type \in ListTypes}} :
           i \in Parents(w)}

\* the items of the walk stay together, and apart from the children's items
ItemsKeptTogether(w) ==
    /\ \A i \in 1..(Len(w.blocks) - 1) :
           w.blocks[i].type \in ListTypes
             /\ w.blocks[i + 1].type = w.blocks[i].type =>
               Positions(<<"<li>", w.blocks[i].id, "</li>",
                           "<li>", w.blocks[i + 1].id, "</li>">>, w.html) # {}
    /\ \A i \in 1..Len(w.blocks) :
           \A c \in ChildItems(w) :
               /\ Positions(<<"<li>", w.blocks[i].id, "</li>", "<li>", c>>,
                            w.html) = {}
               /\ Positions(<<"<li>", c, "</li>", "<li>", w.blocks[i].id>>,
                            w.html) = {}
    /\ \A c \in ChildItems(w) :
           Cardinality(Positions(<<"<li>", c, "</li>">>, w.html)) = 1

C19_ChildWalkKeepsParentListState ==
    /\ [][WaitingListStateKept]_vars
    /\ [](\A n \in 1..Len(walks) : ItemsKeptTogether(walks[n]))

\* the walk of two bulleted items has ended, the first with a bulleted item as
\* its child: the child's container, then one container with the two items
C19_Witness ==
    \E n \in 1..Len(walks) :
        /\ Len(walks[n].blocks) = 2
        /\ walks[n].blocks[1].has_children
        /\ walks[n].html = <<"<ul>", "<li>", "c", "</li>", "</ul>",
                             "<ul>", "<li>", "a", "</li>",
                             "<li>", "b", "</li>", "</ul>">>

(***************************************************************************)
(* C20.  Pagination runs to completion.  The source of the model answers   *)
(* every listing with a last page after finitely many pages, and its trees *)
(* are finite (the bounds); then every call of fetch_blocks returns or     *)
(* raises, every call of blocks_to_html returns or is left by an           *)
(* exception, the walk of a listing's blocks begins only when its last     *)
(* page has arrived, and a response without the has_more key is the last   *)
(* request of its call.                                                    *)
(***************************************************************************)
\* a response without the has_more key ends its call of fetch_blocks
NoFlagIsLastPage ==
    \A r \in 1..Len(ChildrenRequests) :
        ChildrenRequests[r].ok /\ ~ChildrenRequests[r].flagged =>
            /\ \A q \in (r + 1)..Len(ChildrenRequests) :
                   ChildrenRequests[q].call # ChildrenRequests[r].call
            /\ ~(pc = "fetch" /\ fetch.call = ChildrenRequests[r].call)

\* the walk of a listing's blocks began after the last page
WalksBeginAfterLastPage ==
    /\ \A k \in 1..Len(stack) : AllPagesFetched(stack[k])
    /\ pc = "fetch" =>
           \A k \in 1..Len(stack) : stack[k].call # fetch.call

C20_PaginationCompletes ==
    /\ (pc = "fetch") ~> (pc # "fetch")
    /\ (stack # <<>>) ~> (stack = <<>>)
    /\ [](NoFlagIsLastPage /\ WalksBeginAfterLastPage)

\* a listing was answered with a page of one block and more to come and then
\* with a page without the has_more key, and the walk of the block has begun
C20_Witness ==
    /\ pc = "render"
    /\ Len(Top.blocks) = 1
    /\ \E r \in 2..Len(ChildrenRequests) :
           /\ ChildrenRequests[r - 1].has_more
           /\ ChildrenRequests[r - 1].call = Top.call
           /\ ChildrenRequests[r].call = Top.call
           /\ ChildrenRequests[r].ok
           /\ ~ChildrenRequests[r].flagged

====
